---- MODULE Spec2Model ----
(***************************************************************************)
(* A model of the GEE timelapse prototypes:                                *)
(*   src/main.py            the FastAPI endpoint and its helpers           *)
(*   src/streamlit0202.py   two Streamlit scripts: the frame scrubber      *)
(*                          (lines 1-140) and the image viewer (144-312)   *)
(* The remote Earth Engine service is the environment: its answers (image  *)
(* counts, failures) are inputs chosen with \E.                            *)
(***************************************************************************)
EXTENDS Integers, Sequences, FiniteSets, TLC

VARIABLES
    \* ---- index calculator (main.py apply_parameter) ----
    satellite,   \* the satellite name passed in, a sequence of characters
    parameter,   \* the index name passed in
    image,       \* one pixel of the input image: band name -> value
    bm,          \* the band map apply_parameter resolved (local bm, line 38)
    result,      \* what apply_parameter returned
    idxPc,       \* "ready" before the call, "done" after
    \* ---- cloud mask (mask_clouds of both files) ----
    mSat,        \* the satellite name passed in
    qa,          \* the pixel's value in the quality band
    keptMain,    \* mask value computed by main.py's mask_clouds
    keptApp,     \* mask value computed by streamlit0202.py's mask_clouds
    maskPc,
    \* ---- FastAPI process (main.py) ----
    eeInit,      \* "pending" | "ok" | "failed": outcome of initialize_ee at import
    printed,     \* what initialize_ee printed
    req,         \* the query parameters of the last request
    resp,        \* the response to the last request
    calls,       \* the Earth Engine calls the last request made, in order
    \* ---- Streamlit session (streamlit0202.py) ----
    script,      \* "scrubber" (lines 1-140) | "viewer" (lines 144-312)
    creds,       \* ee.data._credentials is set (survives reruns)
    drawings,    \* map_data["all_drawings"]: the rectangles on the map
    session,     \* st.session_state keys ul_lat, ul_lon, lr_lat, lr_lon
    manual,      \* the values typed in the four number inputs (viewer)
    appSat,      \* the selectbox choice
    roi,         \* the script's roi after the last run
    status,      \* how the last run ended
    queried,     \* the collection id queried by the last run, or None
    total,       \* the image count the service reported in the last run
    sliders,     \* the sliders the last run created
    reads,       \* the image-list indices the last run read
    visBands     \* the bands of the vis dict the last run built

idxVars  == <<satellite, parameter, image, bm, result, idxPc>>
maskVars == <<mSat, qa, keptMain, keptApp, maskPc>>
apiVars  == <<eeInit, printed, req, resp, calls>>
appVars  == <<script, creds, drawings, session, manual, appSat, roi, status,
              queried, total, sliders, reads, visBands>>
vars     == <<idxVars, maskVars, apiVars, appVars>>

\* Python's None, and a value that is not None
None == <<>>
Some(v) == <<v>>

----------------------------------------------------------------------------
(* Strings whose characters the code inspects ("Sentinel" in satellite) are *)
(* sequences of characters.                                                 *)

Sentinel  == <<"S","e","n","t","i","n","e","l">>
Sentinel2 == <<"S","e","n","t","i","n","e","l","-","2">>
Landsat8  == <<"L","a","n","d","s","a","t","-","8">>
Landsat9  == <<"L","a","n","d","s","a","t","-","9">>
Sentinel1 == <<"S","e","n","t","i","n","e","l","-","1">>
Modis     == <<"M","O","D","I","S">>

\* the closed enumeration of the selectbox and of col_id
Satellites == {Sentinel2, Landsat8, Landsat9}
\* names a caller of the endpoint may pass (satellite: str)
SatNames   == Satellites \cup {Sentinel1, Modis}

\* Python's  sub in s  on strings
Contains(sub, s) ==
    \E i \in 0..(Len(s) - Len(sub)) : SubSeq(s, i + 1, i + Len(sub)) = sub

----------------------------------------------------------------------------
(* main.py helpers *)

\* largest band value of a pixel in the model
MaxVal == 2

Bands == {"B2", "B3", "B4", "B5", "B6", "B8", "B11"}
Images == [Bands -> 0..MaxVal]

\* index names a caller may pass (parameter: str); NDBI and ndvi are names
\* apply_parameter does not define
Parameters == {"Level1", "NDVI", "NDWI", "MNDWI", "NDSI", "EVI", "SAVI", "NDBI", "ndvi"}

get_band_map(sat) ==
    IF Contains(Sentinel, sat)
    THEN [red |-> "B4", green |-> "B3", blue |-> "B2", nir |-> "B8", swir1 |-> "B11"]
    ELSE [red |-> "B4", green |-> "B3", blue |-> "B2", nir |-> "B5", swir1 |-> "B6"]

\* what apply_parameter returns: the image itself, or one named band whose
\* pixel value is the fraction num/den
SameImage(img) == [kind |-> "image", name |-> "", num |-> 0, den |-> 1, bands |-> img]
OneBand(nm, n, d) == [kind |-> "band", name |-> nm, num |-> n, den |-> d, bands |-> <<>>]
Raised(nm) == [kind |-> "error", name |-> nm, num |-> 0, den |-> 1, bands |-> <<>>]

\* image.normalizedDifference([a, b]).rename(nm): (a - b) / (a + b)
normalizedDifference(img, pair, nm) ==
    OneBand(nm, img[pair[1]] - img[pair[2]], img[pair[1]] + img[pair[2]])

\* 2.5 * ((NIR - RED) / (NIR + 6 * RED - 7.5 * BLUE + 1)), numerator and
\* denominator both doubled to stay in the integers
evi(img, b, nm) ==
    OneBand(nm, 5 * (img[b.nir] - img[b.red]),
                2 * img[b.nir] + 12 * img[b.red] - 15 * img[b.blue] + 2)

pairs(b) ==
    [p \in {"NDVI", "NDWI", "MNDWI", "NDSI"} |->
        CASE p = "NDVI"  -> <<b.nir, b.red>>
          [] p = "NDWI"  -> <<b.green, b.nir>>
          [] p = "MNDWI" -> <<b.green, b.swir1>>
          [] p = "NDSI"  -> <<b.green, b.swir1>>]

apply_parameter_swapped(img, par, sat) ==
    LET b == get_band_map(sat) IN
    IF par = "Level1" THEN SameImage(img)
    ELSE IF par \in DOMAIN pairs(b)
    THEN normalizedDifference(img, <<pairs(b)[par][2], pairs(b)[par][1]>>, par)
    ELSE IF par = "EVI" THEN evi(img, b, par)
    ELSE SameImage(img)

apply_parameter_strict(img, par, sat) ==
    LET b == get_band_map(sat) IN
    IF par = "Level1" THEN SameImage(img)
    ELSE IF par \in DOMAIN pairs(b)
    THEN normalizedDifference(img, pairs(b)[par], par)
    ELSE IF par = "EVI" THEN evi(img, b, par)
    ELSE Raised(par)

apply_parameter(img, par, sat) ==
    LET b == get_band_map(sat) IN
    IF par = "Level1" THEN SameImage(img)
    ELSE IF par \in DOMAIN pairs(b)
    THEN normalizedDifference(img, pairs(b)[par], par)
    ELSE IF par = "EVI" THEN evi(img, b, par)
    ELSE SameImage(img)

NoBandMap == [red |-> "", green |-> "", blue |-> "", nir |-> "", swir1 |-> ""]
NoResult  == [kind |-> "none", name |-> "", num |-> 0, den |-> 1, bands |-> <<>>]

IdxIdle ==
    /\ satellite = Sentinel2 /\ parameter = "NDVI"
    /\ image = [b \in Bands |-> 0]
    /\ bm = NoBandMap /\ result = NoResult /\ idxPc = "idle"

IdxInit ==
    /\ satellite \in SatNames
    /\ parameter \in Parameters
    /\ image \in Images
    /\ bm = NoBandMap
    /\ result = NoResult
    /\ idxPc = "ready"

\* one call apply_parameter(image, parameter, satellite)
ApplyParameter ==
    /\ idxPc = "ready"
    /\ bm' = get_band_map(satellite)
    /\ result' = apply_parameter(image, parameter, satellite)
    /\ idxPc' = "done"
    /\ UNCHANGED <<satellite, parameter, image>>

----------------------------------------------------------------------------
(* mask_clouds, main.py lines 28-35 and streamlit0202.py lines 31-42 *)

\* width in bits of the quality values the model enumerates
QaBits == 12

QaValues == 0..(2^QaBits - 1)

RECURSIVE bitwiseAnd(_, _)
bitwiseAnd(x, y) ==
    IF x = 0 \/ y = 0 THEN 0
    ELSE (x % 2) * (y % 2) + 2 * bitwiseAnd(x \div 2, y \div 2)

\* 1 << k
shl(k) == 2^k

\* the value of  mask  (TRUE: the pixel is kept by updateMask)
mask_clouds_main_or(q, sat) ==
    IF Contains(Sentinel, sat)
    THEN (bitwiseAnd(q, shl(10)) = 0) \/ (bitwiseAnd(q, shl(11)) = 0)
    ELSE (bitwiseAnd(q, shl(3)) = 0) \/ (bitwiseAnd(q, shl(4)) = 0)

mask_clouds_main(q, sat) ==
    IF Contains(Sentinel, sat)
    THEN (bitwiseAnd(q, shl(10)) = 0) /\ (bitwiseAnd(q, shl(11)) = 0)
    ELSE (bitwiseAnd(q, shl(3)) = 0) /\ (bitwiseAnd(q, shl(4)) = 0)

mask_clouds_app(q, sat) ==
    IF sat = Sentinel2
    THEN LET cloud_bit_mask == shl(10)
             cirrus_bit_mask == shl(11)
         IN  (bitwiseAnd(q, cloud_bit_mask) = 0) /\ (bitwiseAnd(q, cirrus_bit_mask) = 0)
    ELSE (bitwiseAnd(q, shl(3)) = 0) /\ (bitwiseAnd(q, shl(4)) = 0)

\* image.updateMask(mask): what happens to the pixel
Verdict(mask) == IF mask THEN "keep" ELSE "drop"

MaskIdle ==
    /\ mSat = Sentinel2 /\ qa = 0
    /\ keptMain = "none" /\ keptApp = "none" /\ maskPc = "idle"

MaskInit ==
    /\ mSat \in SatNames
    /\ qa \in QaValues
    /\ keptMain = "none" /\ keptApp = "none"
    /\ maskPc = "ready"

\* both files' mask_clouds applied to the same pixel
MaskClouds ==
    /\ maskPc = "ready"
    /\ keptMain' = Verdict(mask_clouds_main(qa, mSat))
    /\ keptApp' = Verdict(mask_clouds_app(qa, mSat))
    /\ maskPc' = "done"
    /\ UNCHANGED <<mSat, qa>>

----------------------------------------------------------------------------
(* The FastAPI process, main.py *)

\* col_id of generate_timelapse
col_id ==
    (Sentinel2 :> "COPERNICUS/S2_SR_HARMONIZED") @@
    (Landsat8  :> "LANDSAT/LC08/C02/T1_L2") @@
    (Landsat9  :> "LANDSAT/LC09/C02/T1_L2")

\* the four coordinates a caller may pass: a rectangle, and the same
\* rectangle with its corners exchanged (nothing validates them)
ApiRects ==
    { [u_lat |-> 23, u_lon |-> 68, l_lat |-> 21, l_lon |-> 70],
      [u_lat |-> 21, u_lon |-> 70, l_lat |-> 23, l_lon |-> 68] }

NoReq  == [u_lat |-> 0, u_lon |-> 0, l_lat |-> 0, l_lon |-> 0,
           satellite |-> <<>>, parameter |-> ""]
NoResp == [code |-> 0, body |-> "", col |-> None, roi |-> None, frame |-> "none"]

\* the Earth Engine calls of generate_timelapse, in program order
EeCalls == <<"Geometry.Rectangle", "ImageCollection", "getVideoThumbURL">>

ApiIdle ==
    /\ eeInit = "idle" /\ printed = <<>> /\ req = NoReq /\ resp = NoResp
    /\ calls = <<>>

ApiInit ==
    /\ eeInit = "pending"
    /\ printed = <<>>
    /\ req = NoReq
    /\ resp = NoResp
    /\ calls = <<>>

\* initialize_ee() at import: the except clause prints and returns, the
\* module goes on to define the endpoint either way
InitializeEe ==
    /\ eeInit = "pending"
    /\ \E ok \in BOOLEAN :
        /\ eeInit' = IF ok THEN "ok" ELSE "failed"
        /\ printed' = IF ok THEN <<"Earth Engine Initialized Successfully">>
                            ELSE <<"EE Init Error">>
    /\ UNCHANGED <<req, resp, calls>>

\* the handler from its first line to its return or to the exception that
\* ends it; failAt is the call of EeCalls that raises (0: none does)
generate_timelapse(q, failAt) ==
    LET r == <<q.u_lon, q.l_lat, q.l_lon, q.u_lat>> IN
    IF failAt = 1
    THEN [code |-> 500, body |-> "EEException", col |-> None, roi |-> None,
          frame |-> "none", calls |-> SubSeq(EeCalls, 1, 1)]
    ELSE IF q.satellite \notin DOMAIN col_id
    THEN [code |-> 500, body |-> "KeyError", col |-> None, roi |-> Some(r),
          frame |-> "none", calls |-> SubSeq(EeCalls, 1, 1)]
    ELSE IF failAt \in {2, 3}
    THEN [code |-> 500, body |-> "EEException", col |-> Some(col_id[q.satellite]),
          roi |-> Some(r), frame |-> "none", calls |-> SubSeq(EeCalls, 1, failAt)]
    ELSE [code |-> 200, body |-> "video_url", col |-> Some(col_id[q.satellite]),
          roi |-> Some(r),
          frame |-> apply_parameter([b \in Bands |-> 0], q.parameter, q.satellite).kind,
          calls |-> EeCalls]

\* which call may raise: with Earth Engine initialized only the request to
\* the service.  After a failed initialization the handler runs the same
\* lines (nothing records the failure); what the client library then does
\* is the environment's choice: the first call raises (no credentials were
\* loaded), a later one does, or none (ee.Initialize raised after the
\* credentials were installed)
FailPoints == IF eeInit = "ok" THEN {0, 3} ELSE 0..3

\* GET /generate_timelapse
GenerateTimelapse ==
    /\ eeInit \in {"ok", "failed"}
    /\ \E c \in ApiRects, sat \in SatNames, par \in Parameters, failAt \in FailPoints :
        LET q == [u_lat |-> c.u_lat, u_lon |-> c.u_lon, l_lat |-> c.l_lat,
                  l_lon |-> c.l_lon, satellite |-> sat, parameter |-> par]
        IN  \E out \in {generate_timelapse(q, failAt)} :
            /\ req' = q
            /\ resp' = [code |-> out.code, body |-> out.body, col |-> out.col,
                        roi |-> out.roi, frame |-> out.frame]
            /\ calls' = out.calls
    /\ UNCHANGED <<eeInit, printed>>

----------------------------------------------------------------------------
(* The Streamlit scripts, streamlit0202.py *)

\* most rectangles on the map at once
MaxDrawings == 2
\* most images the service reports for a filtered collection
MaxImages == 6


\* a drawn rectangle's geometry["coordinates"][0]: the ring through its four
\* corners, each [lon, lat], from opposite corners p and q in either order
Ring(p, q) == << <<p[1], p[2]>>, <<p[1], q[2]>>, <<q[1], q[2]>>, <<q[1], p[2]>>,
                 <<p[1], p[2]>> >>
\* the rectangles a user draws, each by the corner the drag starts at and
\* the opposite one: SW to NE, NE to SW, NW to SE
DrawnRings == { Ring(<<68, 21>>, <<70, 23>>),
                Ring(<<70, 21>>, <<68, 0>>),
                Ring(<<68, 23>>, <<70, 0>>) }

\* what a user may type in the four number inputs
ManualRects ==
    { [typed |-> TRUE, ul_lat |-> 23, ul_lon |-> 68, lr_lat |-> 21, lr_lon |-> 70] }

collection_ids ==
    (Sentinel2 :> "COPERNICUS/S2_SR_HARMONIZED") @@
    (Landsat8  :> "LANDSAT/LC08/C02/T1_L2") @@
    (Landsat9  :> "LANDSAT/LC09/C02/T1_L2")

\* min() and max() of a list
RECURSIVE MinOf(_)
MinOf(xs) ==
    IF Len(xs) = 1 THEN xs[1]
    ELSE LET m == MinOf(Tail(xs)) IN IF xs[1] < m THEN xs[1] ELSE m
RECURSIVE MaxOf(_)
MaxOf(xs) ==
    IF Len(xs) = 1 THEN xs[1]
    ELSE LET m == MaxOf(Tail(xs)) IN IF xs[1] > m THEN xs[1] ELSE m
min2(a, b) == IF a < b THEN a ELSE b

FirstDrawing(drw) == drw[1]

\* map_data["all_drawings"][-1]["geometry"]["coordinates"][0]
LastDrawing(drw) == drw[Len(drw)]

\* lats, lons = [c[1] for c in coords], [c[0] for c in coords]
LatsOf(coords) == [i \in 1..Len(coords) |-> coords[i][2]]
LonsOf(coords) == [i \in 1..Len(coords) |-> coords[i][1]]

\* st.session_state.setdefault(k, None) for the four keys
EmptySession == [ul_lat |-> None, ul_lon |-> None, lr_lat |-> None, lr_lon |-> None]

\* x or 0.0
OrZero(x) == IF x = None \/ x = Some(0) THEN 0 ELSE x[1]

\* the four number inputs: what the user typed, else the defaults
NumberInputs(typedIn, sess) ==
    IF typedIn.typed THEN typedIn
    ELSE [typed |-> FALSE, ul_lat |-> OrZero(sess.ul_lat), ul_lon |-> OrZero(sess.ul_lon),
          lr_lat |-> OrZero(sess.lr_lat), lr_lon |-> OrZero(sess.lr_lon)]
Untyped == [typed |-> FALSE, ul_lat |-> 0, ul_lon |-> 0, lr_lat |-> 0, lr_lon |-> 0]

\* vis = {"bands": [...]}: the same conditional in both scripts
vis(sat) ==
    IF sat = Sentinel2 THEN <<"B4", "B3", "B2">> ELSE <<"SR_B4", "SR_B3", "SR_B2">>

\* st.slider raises unless min_value <= value <= max_value
SliderOk(sl) == sl.min <= sl.value /\ sl.value <= sl.max

\* the outcome of one run of a script
Outcome(sess, man, r, st, q, n, sl, rd, vb) ==
    [session |-> sess, manual |-> man, roi |-> r, status |-> st, queried |-> q,
     total |-> n, sliders |-> sl, reads |-> rd, visBands |-> vb]

\* One run of the frame scrubber, lines 1-140, up to the frame display (the
\* export button of lines 124-138 reads the same collection, roi and vis).  env: what the environment
\* answers in this run (initOk, sizeOk: the service calls succeed; n: the
\* image count; v: where the slider stands)
RunScrubber(sess, drw, man, sat, needInit, env) ==
    IF needInit /\ ~env.initOk
    THEN Outcome(sess, man, None, "init_error", None, None, {}, {}, None)
    ELSE IF drw = <<>>
    THEN Outcome(sess, man, None, "no_roi", None, None, {}, {}, None)
    ELSE
    LET coords == LastDrawing(drw)
        lats == LatsOf(coords)
        lons == LonsOf(coords)
        r == Some(<<MinOf(lons), MinOf(lats), MaxOf(lons), MaxOf(lats)>>)
        q == Some(collection_ids[sat])
        sl == [min |-> 1, max |-> env.n, value |-> 1]
    IN  IF ~env.sizeOk
        THEN Outcome(sess, man, r, "service_error", q, None, {}, {}, None)
        ELSE IF env.n > 0
        THEN IF SliderOk(sl)
             THEN Outcome(sess, man, r, "ok", q, Some(env.n), {sl}, {env.v - 1},
                          Some(vis(sat)))
             ELSE Outcome(sess, man, r, "slider_error", q, Some(env.n), {sl}, {}, None)
        ELSE Outcome(sess, man, r, "no_images", q, Some(env.n), {}, {}, None)

\* One run of the image viewer, lines 144-312
RunViewer(sess, drw, man, sat, needInit, env) ==
    IF ~env.initOk
    THEN Outcome(sess, man, None, "init_error", None, None, {}, {}, None)
    ELSE
    LET inputs == NumberInputs(man, sess) IN
    IF drw = <<>>
    THEN Outcome(sess, inputs, None, "no_roi", None, None, {}, {}, None)
    ELSE
    LET coords == LastDrawing(drw)
        lats == LatsOf(coords)
        lons == LonsOf(coords)
        sess1 == [ul_lat |-> Some(MaxOf(lats)), ul_lon |-> Some(MinOf(lons)),
                  lr_lat |-> Some(MinOf(lats)), lr_lon |-> Some(MaxOf(lons))]
        r == Some(<<sess1.ul_lon[1], sess1.lr_lat[1], sess1.lr_lon[1], sess1.ul_lat[1]>>)
        q == Some(collection_ids[sat])
        sl == [min |-> 1, max |-> env.n, value |-> min2(5, env.n)]
        count == min2(env.v, env.n)
    IN  IF ~env.sizeOk
        THEN Outcome(sess1, inputs, r, "service_error", q, None, {}, {}, None)
        ELSE IF ~SliderOk(sl)
        THEN Outcome(sess1, inputs, r, "slider_error", q, Some(env.n), {sl}, {}, None)
        ELSE IF count > 0
        THEN Outcome(sess1, inputs, r, "ok", q, Some(env.n), {sl}, 0..(count - 1),
                     Some(vis(sat)))
        ELSE Outcome(sess1, inputs, r, "ok", q, Some(env.n), {sl}, {}, None)

AppIdle ==
    /\ script = "idle" /\ creds = FALSE /\ drawings = <<>>
    /\ session = EmptySession /\ manual = Untyped /\ appSat = Sentinel2
    /\ roi = None /\ status = "idle" /\ queried = None /\ total = None
    /\ sliders = {} /\ reads = {} /\ visBands = None

\* a browser session opens one of the two scripts; nothing has run yet
AppInit ==
    /\ script \in {"scrubber", "viewer"}
    /\ creds = FALSE
    /\ drawings = <<>>
    /\ session = EmptySession
    /\ manual = Untyped
    /\ appSat = Sentinel2
    /\ roi = None /\ status = "not_run" /\ queried = None /\ total = None
    /\ sliders = {} /\ reads = {} /\ visBands = None

\* what the environment may answer during one run: ee.Initialize raises, or
\* size().getInfo() raises, or the service reports n images and the slider
\* stands at v
Envs == {e \in [initOk : BOOLEAN, sizeOk : BOOLEAN, n : 0..MaxImages, v : 1..MaxImages] :
            /\ e.v <= e.n \/ e.v = 1
            /\ ~e.initOk => (~e.sizeOk /\ e.n = 0)
            /\ ~e.sizeOk => e.n = 0}

\* the script runs top to bottom with the widgets holding drw, man and sat
Run(drw, man, sat) ==
    \E env \in Envs :
        \E out \in {IF script = "scrubber"
                     THEN RunScrubber(session, drw, man, sat, ~creds, env)
                     ELSE RunViewer(session, drw, man, sat, TRUE, env)} :
            /\ drawings' = drw
            /\ appSat' = sat
            /\ session' = out.session
            /\ manual' = out.manual
            /\ roi' = out.roi
            /\ status' = out.status
            /\ queried' = out.queried
            /\ total' = out.total
            /\ sliders' = out.sliders
            /\ reads' = out.reads
            /\ visBands' = out.visBands
            /\ creds' = IF out.status = "init_error" THEN creds ELSE TRUE
            /\ UNCHANGED script

\* the page is opened: the first run
LoadPage ==
    /\ status = "not_run"
    /\ Run(drawings, manual, appSat)

\* the user draws a rectangle on the map
DrawRectangle ==
    /\ status # "not_run"
    /\ Len(drawings) < MaxDrawings
    /\ \E ring \in DrawnRings : Run(Append(drawings, ring), manual, appSat)

\* the user deletes the drawings
DeleteDrawings ==
    /\ status # "not_run"
    /\ drawings # <<>>
    /\ Run(<<>>, manual, appSat)

\* the user types coordinates in the sidebar (the viewer has the inputs)
EnterCoordinates ==
    /\ status # "not_run"
    /\ script = "viewer"
    /\ \E rect \in ManualRects : Run(drawings, rect, appSat)

\* the user picks a satellite, or touches any other widget (s = appSat)
SelectSatellite ==
    /\ status # "not_run"
    /\ \E s \in Satellites : Run(drawings, manual, s)

----------------------------------------------------------------------------
(* Specifications *)

IndexNext == ApplyParameter /\ UNCHANGED <<maskVars, apiVars, appVars>>
IndexInit == IdxInit /\ MaskIdle /\ ApiIdle /\ AppIdle
SpecIndex == IndexInit /\ [][IndexNext]_vars

MaskNext == MaskClouds /\ UNCHANGED <<idxVars, apiVars, appVars>>
MaskSpecInit == IdxIdle /\ MaskInit /\ ApiIdle /\ AppIdle
SpecMask == MaskSpecInit /\ [][MaskNext]_vars

ApiNext ==
    \/ InitializeEe /\ UNCHANGED <<idxVars, maskVars, appVars>>
    \/ GenerateTimelapse /\ UNCHANGED <<idxVars, maskVars, appVars>>
ApiSpecInit == IdxIdle /\ MaskIdle /\ ApiInit /\ AppIdle
SpecApi == ApiSpecInit /\ [][ApiNext]_vars

AppNext ==
    \/ LoadPage /\ UNCHANGED <<idxVars, maskVars, apiVars>>
    \/ DrawRectangle /\ UNCHANGED <<idxVars, maskVars, apiVars>>
    \/ DeleteDrawings /\ UNCHANGED <<idxVars, maskVars, apiVars>>
    \/ EnterCoordinates /\ UNCHANGED <<idxVars, maskVars, apiVars>>
    \/ SelectSatellite /\ UNCHANGED <<idxVars, maskVars, apiVars>>
AppSpecInit == IdxIdle /\ MaskIdle /\ ApiIdle /\ AppInit
SpecApp == AppSpecInit /\ [][AppNext]_vars

----------------------------------------------------------------------------
(* Properties *)

NormalizedDifferenceNames == {"NDVI", "NDWI", "MNDWI", "NDSI"}
DefinedIndices == {"NDVI", "NDWI", "MNDWI", "NDSI", "EVI", "SAVI"}

\* the ordered band pair (a, b) the index is the normalized difference of
IndexPair(par, b) ==
    CASE par = "NDVI"  -> <<b.nir, b.red>>
      [] par = "NDWI"  -> <<b.green, b.nir>>
      [] par = "MNDWI" -> <<b.green, b.swir1>>
      [] par = "NDSI"  -> <<b.green, b.swir1>>

\* the fraction n1/d1 equals the fraction n2/d2
SameFraction(n1, d1, n2, d2) == d1 # 0 /\ d2 # 0 /\ n1 * d2 = n2 * d1

\* C1: for NDVI, NDWI, MNDWI and NDSI and each of the three satellites,
\* apply_parameter returns one band named after the index whose value is
\* (a-b)/(a+b) for the index's ordered band pair (a,b) of
\* get_band_map(satellite), wherever a+b is not zero; NDVI is
\* (nir-red)/(nir+red).
C1_NormalizedDifference ==
    (idxPc = "done" /\ satellite \in Satellites /\ parameter \in NormalizedDifferenceNames)
    => LET pr == IndexPair(parameter, get_band_map(satellite))
           a == image[pr[1]]
           b == image[pr[2]]
       IN  /\ result.kind = "band"
           /\ result.name = parameter
           /\ bm = get_band_map(satellite)
           /\ (a + b # 0) => SameFraction(result.num, result.den, a - b, a + b)
           /\ (parameter = "NDVI" /\ image[bm.nir] + image[bm.red] # 0)
              => SameFraction(result.num, result.den,
                              image[bm.nir] - image[bm.red], image[bm.nir] + image[bm.red])

\* C1 witness: NDVI of a Landsat-8 pixel with nir (B5) = 2 and red (B4) = 1
\* came out as 1/3
C1_Witness ==
    /\ idxPc = "done" /\ satellite = Landsat8 /\ parameter = "NDVI"
    /\ image["B5"] = 2 /\ image["B4"] = 1 /\ image["B8"] = 0
    /\ result.kind = "band" /\ result.num = 1 /\ result.den = 3

\* the bit of q at position k
BitOf(q, k) == (q \div (2^k)) % 2

C3_BandMapClosedEnumeration ==
    idxPc = "done"
    => IF satellite \in Satellites
       THEN bm.red # "" /\ bm.green # "" /\ bm.blue # "" /\ bm.nir # ""
       ELSE bm = NoBandMap

\* C4: for EVI and for SAVI apply_parameter returns one band named after the
\* index (for EVI with the value 2.5*(NIR-RED)/(NIR+6*RED-7.5*BLUE+1)), never
\* the input image unchanged.
C4_EviSaviComputed ==
    (idxPc = "done" /\ parameter \in {"EVI", "SAVI"})
    => /\ result.kind = "band"
       /\ result.name = parameter
       /\ parameter = "EVI"
          => result.num * (2 * image[bm.nir] + 12 * image[bm.red] - 15 * image[bm.blue] + 2)
             = 5 * (image[bm.nir] - image[bm.red]) * result.den

\* C5: for every index name that is not NDVI, NDWI, MNDWI, NDSI, EVI or SAVI
\* (Level1 among them) apply_parameter returns the input image unchanged and
\* raises nothing.
C5_UnknownNameReturnsInput ==
    (idxPc = "done" /\ parameter \notin DefinedIndices)
    => result.kind = "image" /\ result.bands = image

\* C5 witness: the undefined name NDBI, for a satellite outside the
\* enumeration, gave back the image as it was
C5_Witness ==
    /\ idxPc = "done" /\ parameter = "NDBI" /\ satellite = Modis
    /\ image["B4"] = 2 /\ result.kind = "image" /\ result.bands["B4"] = 2

\* C6: with coordinates typed in the number inputs and nothing drawn, the
\* ROI is the rectangle of the typed coordinates and the collection is
\* queried for it.
C6_ManualInputSetsRoi ==
    (script = "viewer" /\ status \notin {"not_run", "init_error"}
       /\ manual.typed /\ drawings = <<>>)
    => /\ roi = Some(<<manual.ul_lon, manual.lr_lat, manual.lr_lon, manual.ul_lat>>)
       /\ queried # None

\* C7: after initialize_ee failed in main.py, generate_timelapse issues no
\* collection request and no video request.
C7_NoCallAfterFailedInit ==
    eeInit = "failed"
    => \A i \in 1..Len(calls) : calls[i] \notin {"ImageCollection", "getVideoThumbURL"}

\* the bounding box [min lon, min lat, max lon, max lat] of a ring
BoundingBox(ring) ==
    LET lonSet == {ring[i][1] : i \in 1..Len(ring)}
        latSet == {ring[i][2] : i \in 1..Len(ring)}
        least(S) == CHOOSE x \in S : \A y \in S : x <= y
        most(S) == CHOOSE x \in S : \A y \in S : x >= y
    IN  <<least(lonSet), least(latSet), most(lonSet), most(latSet)>>

SessionOrdered ==
    \/ session = EmptySession
    \/ /\ \A k \in DOMAIN session : session[k] # None
       /\ session.ul_lat[1] >= session.lr_lat[1]
       /\ session.ul_lon[1] <= session.lr_lon[1]

\* C8: after any run that got past initialize_ee, the ROI is None when
\* nothing is drawn and otherwise the bounding box of the last drawing,
\* whatever the order of its corners; the four session keys are all None or
\* ordered (ul_lat >= lr_lat, ul_lon <= lr_lon); no collection is queried
\* while the ROI is None.
C8_RoiFromLastDrawing ==
    /\ SessionOrdered
    /\ roi = None => queried = None
    /\ status \notin {"not_run", "init_error"}
       => IF drawings = <<>>
          THEN roi = None
          ELSE roi = Some(BoundingBox(drawings[Len(drawings)]))

\* C8 witness: in the viewer, a second rectangle dragged from its north-east
\* corner over a first one with another bounding box became the ROI and the
\* session bounds
C8_Witness ==
    /\ script = "viewer" /\ status = "ok"
    /\ Len(drawings) = 2
    /\ drawings[1] = Ring(<<68, 21>>, <<70, 23>>)
    /\ drawings[2] = Ring(<<70, 21>>, <<68, 0>>)
    /\ roi = Some(<<68, 0, 70, 21>>)
    /\ session.ul_lat = Some(21) /\ session.lr_lat = Some(0)
    /\ queried # None

\* C9: every slider is created with min_value <= value <= max_value, every
\* index read from the image list lies in 0..n-1, and when n = 0 no slider is
\* created and no image is read.
C9_SliderAndIndexInRange ==
    /\ \A sl \in sliders : sl.min <= sl.value /\ sl.value <= sl.max
    /\ total # None => \A i \in reads : 0 <= i /\ i <= total[1] - 1
    /\ total = Some(0) => sliders = {} /\ reads = {}

\* C10: for each satellite the collection id of main.py is the one
\* streamlit0202.py queries, and the red, green and blue names of main.py's
\* get_band_map are the bands streamlit0202.py puts in vis for that
\* collection.
C10_SameSensorConfiguration ==
    status = "ok"
    => /\ queried = Some(col_id[appSat])
       /\ visBands # None
          => visBands = Some(<<get_band_map(appSat).red, get_band_map(appSat).green,
                                get_band_map(appSat).blue>>)

====
